---- MODULE Spec2Model ----
(***************************************************************************)
(* A model of ics/todo.py: the Todo entity (begin / due / duration time    *)
(* model), its extraction from a property-line container and its           *)
(* serialization back to property lines.                                   *)
(*                                                                         *)
(* Values.  An optional value is a sequence of length at most one: <<>> is *)
(* Python's None and <<v>> is the value v.  Instants (Arrow objects) and   *)
(* time spans (timedelta) are integers.  The value of a property line is a *)
(* sequence of integers: a timestamp text is <<local, offset>>, a duration *)
(* text is <<weeks, days>>, an integer value is <<n>>, and a text is its   *)
(* sequence of character codes.                                            *)
(***************************************************************************)
EXTENDS Integers, Sequences, FiniteSets, TLC

VARIABLES todo, live, op, arg, cargs, inp, out, err,
          other, oerr, shared, res, nmut

\* What the operations on a single entity never touch: the second entity,
\* the outcome that produced it, the containers the two entities share, the
\* results of the last comparisons, and the number of mutations since a clone.
aux == <<other, oerr, shared, res, nmut>>

vars == <<todo, live, op, arg, cargs, inp, out, err, other, oerr, shared, res, nmut>>

-----------------------------------------------------------------------------
(* Bounds of the model. *)

\* instants are 0..MaxTime
MaxTime == 2
\* time spans given to the constructor and to the setter are 0..MaxDur
MaxDur == 1
\* a container holds at most MaxAlarms VALARM lines
MaxAlarms == 2
\* a container holds at most MaxUnused lines whose tag no extractor claims
MaxUnused == 2

\* The most changes made to a Todo and its clone.
MaxMutations == 2

-----------------------------------------------------------------------------
(* Python values. *)

None == <<>>

Some(v) == <<v>>

Opt(S) == {None} \cup {Some(v) : v \in S}

Times == 0 .. MaxTime

Durs == 0 .. MaxDur

\* bool(x) of an Arrow or None: Arrow defines no truth value, so every
\* instant is true, the epoch included.
truthy_arrow(x) == x # None

\* bool(x) of a timedelta, an int or None: a zero is false.
truthy_num(x) == x # None /\ x[1] # 0

\* bool(x) of a string or None: the empty string is false.
truthy_str(x) == x # None /\ x[1] # <<>>

\* The outcome of a call: err is "ok" or the kind of the exception raised,
\* todo the entity as the call left it.
Ok(t) == [err |-> "ok", todo |-> t]

Raise(e, t) == [err |-> e, todo |-> t]

\* The outcome of a getter: err as above, val the optional value returned.
Ret(v) == [err |-> "ok", val |-> v]

RetRaise(e) == [err |-> e, val |-> None]

-----------------------------------------------------------------------------
(* The accessors of the time model. *)

\* Todo.begin (getter)
begin(t) == t._begin

\* A begin setter that checks nothing.
set_begin_unchecked(t, value) == Ok([t EXCEPT !._begin = value])

\* Todo.begin (setter)
set_begin(t, value) ==
    IF truthy_arrow(value) /\ truthy_arrow(t._due_time) /\ value[1] > t._due_time[1]
    THEN Raise("InvalidState", t)
    ELSE Ok([t EXCEPT !._begin = value])

\* Todo.due (getter).  begin + _duration raises TypeError when begin is None.
due(t) ==
    IF truthy_num(t._duration)
    THEN IF begin(t) = None
         THEN RetRaise("TypeError")
         ELSE Ret(Some(begin(t)[1] + t._duration[1]))
    ELSE IF truthy_arrow(t._due_time)
         THEN Ret(t._due_time)
         ELSE Ret(None)

\* Todo.due (setter).  value < self._begin raises TypeError when _begin is
\* None: an Arrow is ordered only against an Arrow or a datetime.
set_due(t, value) ==
    IF truthy_arrow(value) /\ t._begin = None
    THEN Raise("TypeError", t)
    ELSE IF truthy_arrow(value) /\ value[1] < t._begin[1]
         THEN Raise("InvalidState", t)
         ELSE Ok([t EXCEPT !._due_time = value,
                           !._duration = IF truthy_arrow(value) THEN None ELSE @])

\* Todo.duration (getter).  due - begin raises TypeError when begin is None.
duration(t) ==
    IF truthy_num(t._duration)
    THEN Ret(t._duration)
    ELSE IF due(t).err # "ok"
         THEN RetRaise(due(t).err)
         ELSE IF truthy_arrow(due(t).val)
              THEN IF begin(t) = None
                   THEN RetRaise("TypeError")
                   ELSE Ret(Some(due(t).val[1] - begin(t)[1]))
              ELSE Ret(None)

\* Todo.duration (setter); value is a timedelta or None.
set_duration(t, value) ==
    Ok([t EXCEPT !._duration = value,
                 !._due_time = IF truthy_num(value) THEN None ELSE @])

-----------------------------------------------------------------------------
(* Construction. *)

\* uid_gen() returns a fresh random identifier: one of these.
GenUids == {<<103, 49>>, <<103, 50>>}

\* The state before any entity exists, and after a construction that raised.
NoTodo ==
    [uid |-> None, completed |-> None, created |-> None, description |-> None,
     _begin |-> None, location |-> None, percent |-> None, priority |-> None,
     name |-> None, url |-> None, alarms |-> [kind |-> "set", items |-> <<>>],
     _unused |-> <<>>, _due_time |-> None, _duration |-> None]

\* The keyword arguments of Todo(), all defaulting to None.
DefaultArgs ==
    [uid |-> None, completed |-> None, created |-> None, description |-> None,
     begin |-> None, location |-> None, percent |-> None, priority |-> None,
     name |-> None, url |-> None, due |-> None, duration |-> None,
     alarms |-> None]

\* set(alarms): the elements of the iterable, kept here in ascending order.
set_of(items) ==
    [kind |-> "set", items |-> SortSeq(items, LAMBDA x, y : x < y)]

\* Todo.__init__ with keyword arguments a; g is what uid_gen() returns.
Todo__init__(a, g) ==
    LET t0 == [NoTodo EXCEPT
                 !.uid = IF truthy_str(a.uid) THEN a.uid ELSE Some(g),
                 !.completed = a.completed, !.created = a.created,
                 !.description = a.description]
        r1 == set_begin(t0, a.begin)
        t1 == [r1.todo EXCEPT
                 !.location = a.location, !.percent = a.percent,
                 !.priority = a.priority, !.name = a.name, !.url = a.url,
                 !.alarms = [kind |-> "set", items |-> <<>>],
                 !._unused = <<>>]
        r2 == IF truthy_num(a.duration) /\ truthy_arrow(a.due)
              THEN Raise("InvalidConstruction", t1)
              ELSE IF truthy_num(a.duration)
                   THEN IF ~truthy_arrow(a.begin)
                        THEN Raise("InvalidConstruction", t1)
                        ELSE set_duration(t1, a.duration)
                   ELSE IF truthy_arrow(a.due)
                        THEN set_due(t1, a.due)
                        ELSE Ok(t1)
    IN  IF r1.err # "ok" THEN r1
        ELSE IF r2.err # "ok" \/ a.alarms = None THEN r2
        ELSE Ok([r2.todo EXCEPT !.alarms = set_of(a.alarms[1])])

-----------------------------------------------------------------------------
(* Property lines and the codecs of their values. *)

Line(tag, value) == [tag |-> tag, value |-> value]

\* iso_to_arrow: the instant of a timestamp text <<local, offset>> read in
\* the time zone the line names.
iso_to_arrow(line) == line.value[1] - line.value[2]

\* arrow_to_iso: the instant written in UTC.
arrow_to_iso(instant) == <<instant, 0>>

\* parse_duration: the time span of a duration text <<weeks, days>>.
parse_duration(value) == 7 * value[1] + value[2]

\* timedelta_to_duration: the time span written in days.
timedelta_to_duration(span) == <<0, span>>

\* unescape_string: a backslash (92) followed by a character stands for
\* that character.
RECURSIVE unescape_string(_)
unescape_string(s) ==
    IF s = <<>> THEN <<>>
    ELSE IF s[1] = 92 /\ Len(s) >= 2
         THEN <<s[2]>> \o unescape_string(SubSeq(s, 3, Len(s)))
         ELSE <<s[1]>> \o unescape_string(Tail(s))

\* escape_string: a backslash (92), a semicolon (59) and a comma (44) get a
\* backslash in front.
RECURSIVE escape_string(_)
escape_string(s) ==
    IF s = <<>> THEN <<>>
    ELSE (IF s[1] \in {92, 59, 44} THEN <<92, s[1]>> ELSE <<s[1]>>)
         \o escape_string(Tail(s))

-----------------------------------------------------------------------------
(* Inputs: the extractors, in registration order.  An extractor of a       *)
(* single-line tag gets line = <<l>> for the matching line l, or None.     *)

dtstamp(t, line) ==
    IF line # None
    THEN Ok([t EXCEPT !.created = Some(iso_to_arrow(line[1]))])
    ELSE Ok(t)

uid(t, line) ==
    IF line # None THEN Ok([t EXCEPT !.uid = Some(line[1].value)]) ELSE Ok(t)

completed(t, line) ==
    IF line # None
    THEN Ok([t EXCEPT !.completed = Some(iso_to_arrow(line[1]))])
    ELSE Ok(t)

description(t, line) ==
    Ok([t EXCEPT !.description =
            IF line # None THEN Some(unescape_string(line[1].value)) ELSE None])

\* DTSTART: through the begin setter.
start(t, line) ==
    IF line # None THEN set_begin(t, Some(iso_to_arrow(line[1]))) ELSE Ok(t)

location(t, line) ==
    Ok([t EXCEPT !.location =
            IF line # None THEN Some(unescape_string(line[1].value)) ELSE None])

\* PERCENT-COMPLETE: line.value is read before line is tested, so a missing
\* line raises AttributeError.
percent(t, line) ==
    IF line = None THEN Raise("AttributeError", t)
    ELSE IF line[1].value[1] < 0 \/ line[1].value[1] > 100
         THEN Raise("MalformedProperty", t)
         ELSE Ok([t EXCEPT !.percent = Some(line[1].value[1])])

\* PRIORITY: as PERCENT-COMPLETE.
priority(t, line) ==
    IF line = None THEN Raise("AttributeError", t)
    ELSE IF line[1].value[1] < 0 \/ line[1].value[1] > 9
         THEN Raise("MalformedProperty", t)
         ELSE Ok([t EXCEPT !.priority = Some(line[1].value[1])])

summary(t, line) ==
    Ok([t EXCEPT !.name =
            IF line # None THEN Some(unescape_string(line[1].value)) ELSE None])

url(t, line) ==
    Ok([t EXCEPT !.url =
            IF line # None THEN Some(unescape_string(line[1].value)) ELSE None])

\* DUE: stores _due_time directly, not through the due setter.
due_extractor(t, line) ==
    IF line # None
    THEN IF truthy_num(t._duration)
         THEN Raise("MalformedProperty", t)
         ELSE Ok([t EXCEPT !._due_time = Some(iso_to_arrow(line[1]))])
    ELSE Ok(t)

\* DURATION: stores _duration directly, not through the duration setter.
duration_extractor(t, line) ==
    IF line # None
    THEN IF truthy_arrow(t._due_time)
         THEN Raise("MalformedProperty", t)
         ELSE Ok([t EXCEPT !._duration = Some(parse_duration(line[1].value))])
    ELSE Ok(t)

\* AlarmFactory: the alarm a VALARM sub-container decodes to.
alarm_factory(x) == x.value[1]

\* VALARM (multiple): gets the list of all matching lines.
alarms(t, lines) ==
    Ok([t EXCEPT !.alarms =
            [kind |-> "list",
             items |-> [i \in 1 .. Len(lines) |-> alarm_factory(lines[i])]]])

-----------------------------------------------------------------------------
(* The extraction registry. *)

\* Todo._EXTRACTORS: the registered extractors, in registration order.
EXTRACTORS ==
    << [tag |-> "DTSTAMP", required |-> TRUE, multiple |-> FALSE],
       [tag |-> "UID", required |-> TRUE, multiple |-> FALSE],
       [tag |-> "COMPLETED", required |-> FALSE, multiple |-> FALSE],
       [tag |-> "DESCRIPTION", required |-> FALSE, multiple |-> FALSE],
       [tag |-> "DTSTART", required |-> FALSE, multiple |-> FALSE],
       [tag |-> "LOCATION", required |-> FALSE, multiple |-> FALSE],
       [tag |-> "PERCENT-COMPLETE", required |-> FALSE, multiple |-> FALSE],
       [tag |-> "PRIORITY", required |-> FALSE, multiple |-> FALSE],
       [tag |-> "SUMMARY", required |-> FALSE, multiple |-> FALSE],
       [tag |-> "URL", required |-> FALSE, multiple |-> FALSE],
       [tag |-> "DUE", required |-> FALSE, multiple |-> FALSE],
       [tag |-> "DURATION", required |-> FALSE, multiple |-> FALSE],
       [tag |-> "VALARM", required |-> FALSE, multiple |-> TRUE] >>

ExtractorTags == {EXTRACTORS[i].tag : i \in 1 .. Len(EXTRACTORS)}

\* The function registered for a tag, applied.
extractor_function(tag, t, x) ==
    CASE tag = "DTSTAMP" -> dtstamp(t, x)
      [] tag = "UID" -> uid(t, x)
      [] tag = "COMPLETED" -> completed(t, x)
      [] tag = "DESCRIPTION" -> description(t, x)
      [] tag = "DTSTART" -> start(t, x)
      [] tag = "LOCATION" -> location(t, x)
      [] tag = "PERCENT-COMPLETE" -> percent(t, x)
      [] tag = "PRIORITY" -> priority(t, x)
      [] tag = "SUMMARY" -> summary(t, x)
      [] tag = "URL" -> url(t, x)
      [] tag = "DUE" -> due_extractor(t, x)
      [] tag = "DURATION" -> duration_extractor(t, x)
      [] tag = "VALARM" -> alarms(t, x)

\* The lines of a container that carry a tag, in their order.
get_lines(container, tag) == SelectSeq(container, LAMBDA l : l.tag = tag)

\* The lines of a container no extractor claims, in their order.
unclaimed(container) ==
    SelectSeq(container, LAMBDA l : l.tag \notin ExtractorTags)

\* The extractors from the i-th on, applied in registration order; the
\* first failure aborts.  (Containers here hold at most one line of each
\* single-line tag.)
RECURSIVE run_extractors(_, _, _)
run_extractors(t, container, i) ==
    IF i > Len(EXTRACTORS) THEN Ok(t)
    ELSE LET e == EXTRACTORS[i]
             lines == get_lines(container, e.tag)
         IN  IF lines = <<>> /\ e.required
             THEN Raise("MissingProperty", t)
             ELSE LET r == extractor_function(
                               e.tag, t,
                               IF e.multiple THEN lines
                               ELSE IF Len(lines) = 1 THEN <<lines[1]>> ELSE None)
                  IN  IF r.err # "ok" THEN r
                      ELSE run_extractors(r.todo, container, i + 1)

\* Component._populate: run the extractors, then keep the unclaimed lines.
populate(t, container) ==
    LET r == run_extractors(t, container, 1)
    IN  IF r.err # "ok" THEN r
        ELSE Ok([r.todo EXCEPT !._unused = unclaimed(container)])

\* Component._from_container: a default-constructed Todo, populated.
from_container(container, g) == populate(Todo__init__(DefaultArgs, g).todo, container)

-----------------------------------------------------------------------------
(* Outputs: the producers, in registration order.  Each returns the        *)
(* container with its lines appended.                                      *)

\* g is what uid_gen() returns.
o_uid(t, container, g) ==
    Append(container, Line("UID", IF truthy_str(t.uid) THEN t.uid[1] ELSE g))

\* now is what arrow.now() returns.
o_completed(t, container, now) ==
    Append(container,
           Line("COMPLETED",
                arrow_to_iso(IF truthy_arrow(t.completed) THEN t.completed[1] ELSE now)))

o_created(t, container, now) ==
    Append(container,
           Line("DTSTAMP",
                arrow_to_iso(IF truthy_arrow(t.created) THEN t.created[1] ELSE now)))

o_description(t, container) ==
    IF truthy_str(t.description)
    THEN Append(container, Line("DESCRIPTION", escape_string(t.description[1])))
    ELSE container

o_start(t, container) ==
    IF truthy_arrow(begin(t))
    THEN Append(container, Line("DTSTART", arrow_to_iso(begin(t)[1])))
    ELSE container

o_location(t, container) ==
    IF truthy_str(t.location)
    THEN Append(container, Line("LOCATION", escape_string(t.location[1])))
    ELSE container

o_percent(t, container) ==
    IF truthy_num(t.percent)
    THEN Append(container, Line("PERCENT-COMPLETE", <<t.percent[1]>>))
    ELSE container

o_priority(t, container) ==
    IF truthy_num(t.priority)
    THEN Append(container, Line("PRIORITY", <<t.priority[1]>>))
    ELSE container

o_summary(t, container) ==
    IF truthy_str(t.name)
    THEN Append(container, Line("SUMMARY", escape_string(t.name[1])))
    ELSE container

o_url(t, container) ==
    IF truthy_str(t.url)
    THEN Append(container, Line("URL", escape_string(t.url[1])))
    ELSE container

\* A producer that writes the derived due instead of the stored one.
o_due_derived(t, container) ==
    IF due(t).err = "ok" /\ truthy_arrow(due(t).val)
    THEN Append(container, Line("DUE", arrow_to_iso(due(t).val[1])))
    ELSE container

o_due(t, container) ==
    IF truthy_arrow(t._due_time)
    THEN Append(container, Line("DUE", arrow_to_iso(t._due_time[1])))
    ELSE container

o_duration(t, container) ==
    IF truthy_num(t._duration) /\ truthy_arrow(begin(t))
    THEN Append(container, Line("DURATION", timedelta_to_duration(t._duration[1])))
    ELSE container

\* str(alarm): the rendering of an alarm.
alarm_str(alarm) == Line("VALARM", <<alarm>>)

\* order is the order in which todo.alarms is iterated.
o_alarm(t, container, order) ==
    container \o [i \in 1 .. Len(order) |-> alarm_str(order[i])]

\* The orders in which a collection of alarms may be iterated: a list in
\* its own order, a set in any order.
iter_orders(al) ==
    IF al.kind = "list" THEN {al.items}
    ELSE {q \in [1 .. Len(al.items) -> {al.items[i] : i \in 1 .. Len(al.items)}] :
            \A i \in 1 .. Len(al.items) : \E j \in 1 .. Len(al.items) : q[j] = al.items[i]}

\* The producers applied in registration order to a container.
run_outputs(t, container, g, now1, now2, order) ==
    LET c1 == o_uid(t, container, g)
        c2 == o_completed(t, c1, now1)
        c3 == o_created(t, c2, now2)
        c4 == o_description(t, c3)
        c5 == o_start(t, c4)
        c6 == o_location(t, c5)
        c7 == o_percent(t, c6)
        c8 == o_priority(t, c7)
        c9 == o_summary(t, c8)
        c10 == o_url(t, c9)
        c11 == o_due(t, c10)
        c12 == o_duration(t, c11)
    IN  o_alarm(t, c12, order)

\* A serialization that starts from the preserved lines and lets the
\* producers append to them.
Todo__str__unused_first(t, g, now1, now2, order) ==
    run_outputs(t, t._unused, g, now1, now2, order)

\* Component.__str__: the producers' lines, then the preserved unused lines.
Todo__str__(t, g, now1, now2, order) ==
    run_outputs(t, <<>>, g, now1, now2, order) \o t._unused

-----------------------------------------------------------------------------
(* Comparisons, equality, hashing and intervals of two Todos.  The other   *)
(* operand is always a Todo here.                                          *)

\* The outcome of a method returning a truth value or an integer.
RetBool(b) == [err |-> "ok", val |-> b]

RaiseBool(e) == [err |-> e, val |-> FALSE]

RetInt(n) == [err |-> "ok", val |-> n]

RaiseInt(e) == [err |-> e, val |-> 0]

\* No call made.
NoBool == [err |-> "none", val |-> FALSE]

NoInt == [err |-> "none", val |-> 0]

\* x < y of two strings: the lexicographic order of their characters.
RECURSIVE str_lt(_, _)
str_lt(x, y) ==
    IF y = <<>> THEN FALSE
    ELSE IF x = <<>> THEN TRUE
    ELSE IF Head(x) # Head(y) THEN Head(x) < Head(y)
    ELSE str_lt(Tail(x), Tail(y))

str_le(x, y) == x = y \/ str_lt(x, y)

\* Todo.starts_within.  other.due is read only when other.begin is set, so
\* the getter cannot fail here.
starts_within(self, oth) ==
    IF ~truthy_arrow(begin(self)) \/ ~truthy_arrow(begin(oth))
       \/ ~truthy_arrow(due(oth).val)
    THEN RetBool(FALSE)
    ELSE RetBool(begin(oth)[1] <= begin(self)[1] /\ begin(self)[1] <= due(oth).val[1])

\* Todo.due_within.  The guard tests self.begin, not self.due; with
\* self.due None the chained comparison orders an Arrow against None,
\* which raises TypeError.
due_within(self, oth) ==
    IF ~truthy_arrow(begin(self)) \/ ~truthy_arrow(begin(oth))
       \/ ~truthy_arrow(due(oth).val)
    THEN RetBool(FALSE)
    ELSE IF due(self).val = None THEN RaiseBool("TypeError")
    ELSE RetBool(begin(oth)[1] <= due(self).val[1]
                 /\ due(self).val[1] <= due(oth).val[1])

\* r1 or r2 of two calls: r2 is made only when r1 returned False.
OrElse(r1, r2) == IF r1.err # "ok" \/ r1.val THEN r1 ELSE r2

\* An intersects that only looks from self.
intersects_one_sided(self, oth) ==
    OrElse(starts_within(self, oth), due_within(self, oth))

\* Todo.intersects (also __xor__).
intersects(self, oth) ==
    OrElse(starts_within(self, oth),
           OrElse(due_within(self, oth),
                  OrElse(starts_within(oth, self), due_within(oth, self))))

\* The operands of an ordering of self.due against other.due, made once
\* not both are None: each getter may raise, and an Arrow is ordered only
\* against an Arrow, so a None on either side raises TypeError.
DueOperands(self, oth) ==
    IF due(self).err # "ok" THEN [err |-> due(self).err, a |-> 0, b |-> 0]
    ELSE IF due(oth).err # "ok" THEN [err |-> due(oth).err, a |-> 0, b |-> 0]
    ELSE IF due(self).val = None \/ due(oth).val = None
    THEN [err |-> "TypeError", a |-> 0, b |-> 0]
    ELSE [err |-> "ok", a |-> due(self).val[1], b |-> due(oth).val[1]]

\* The test `self.due is None and other.due is None`: err when a getter
\* that is read raises.
BothDueNone(self, oth) ==
    IF due(self).err # "ok" THEN RaiseBool(due(self).err)
    ELSE IF due(self).val # None THEN RetBool(FALSE)
    ELSE IF due(oth).err # "ok" THEN RaiseBool(due(oth).err)
    ELSE RetBool(due(oth).val = None)

\* Todo.__lt__
Todo__lt__(self, oth) ==
    LET both == BothDueNone(self, oth)
    IN  IF both.err # "ok" THEN both
        ELSE IF both.val
        THEN IF self.name = None /\ oth.name = None THEN RetBool(FALSE)
             ELSE IF self.name = None THEN RetBool(TRUE)
             ELSE IF oth.name = None THEN RetBool(FALSE)
             ELSE RetBool(str_lt(self.name[1], oth.name[1]))
        ELSE LET d == DueOperands(self, oth)
             IN  IF d.err # "ok" THEN RaiseBool(d.err) ELSE RetBool(d.a < d.b)

\* Todo.__le__
Todo__le__(self, oth) ==
    LET both == BothDueNone(self, oth)
    IN  IF both.err # "ok" THEN both
        ELSE IF both.val
        THEN IF self.name = None /\ oth.name = None THEN RetBool(TRUE)
             ELSE IF self.name = None THEN RetBool(TRUE)
             ELSE IF oth.name = None THEN RetBool(FALSE)
             ELSE RetBool(str_le(self.name[1], oth.name[1]))
        ELSE LET d == DueOperands(self, oth)
             IN  IF d.err # "ok" THEN RaiseBool(d.err) ELSE RetBool(d.a <= d.b)

\* x > y of two names, either of which may be None.  Python 3 orders None
\* against nothing (TypeError); Python 2 orders None before every string.
name_gt(x, y, py3) ==
    IF x # None /\ y # None THEN RetBool(str_lt(y[1], x[1]))
    ELSE IF py3 THEN RaiseBool("TypeError")
    ELSE RetBool(x # None /\ y = None)

\* x >= y of two names, as above.
name_ge(x, y, py3) ==
    IF x # None /\ y # None THEN RetBool(str_le(y[1], x[1]))
    ELSE IF py3 THEN RaiseBool("TypeError")
    ELSE RetBool(y = None)

\* Todo.__gt__: the names are compared as they are, None included.
Todo__gt__(self, oth, py3) ==
    LET both == BothDueNone(self, oth)
    IN  IF both.err # "ok" THEN both
        ELSE IF both.val THEN name_gt(self.name, oth.name, py3)
        ELSE LET d == DueOperands(self, oth)
             IN  IF d.err # "ok" THEN RaiseBool(d.err) ELSE RetBool(d.a > d.b)

\* Todo.__ge__
Todo__ge__(self, oth, py3) ==
    LET both == BothDueNone(self, oth)
    IN  IF both.err # "ok" THEN both
        ELSE IF both.val THEN name_ge(self.name, oth.name, py3)
        ELSE LET d == DueOperands(self, oth)
             IN  IF d.err # "ok" THEN RaiseBool(d.err) ELSE RetBool(d.a >= d.b)

\* An equality that compares every field.
Todo__eq__all_fields(self, oth) == RetBool(self = oth)

\* Todo.__eq__
Todo__eq__(self, oth) == RetBool(self.uid = oth.uid)

\* Todo.__ne__
Todo__ne__(self, oth) == RetBool(self.uid # oth.uid)

\* int() of the three-digit character codes of a string, joined.
RECURSIVE join_codes(_, _)
join_codes(text, acc) ==
    IF text = <<>> THEN acc
    ELSE join_codes(Tail(text), acc * 1000 + Head(text))

\* Todo.__hash__: int('') raises ValueError.
Todo__hash__(self) ==
    IF self.uid[1] = <<>> THEN RaiseInt("ValueError")
    ELSE RetInt(join_codes(self.uid[1], 0))

-----------------------------------------------------------------------------
(* Cloning.  Two entities may refer to one container object: shared names *)
(* the fields (alarms, _unused) whose container the original and the copy *)
(* both hold, so that a change made in place through one shows in both.   *)

\* The fields that hold a mutable container.
ContainerFields == {"alarms", "_unused"}

\* copy.copy(self): a new object whose every attribute refers to the same
\* value as the original's.
copy_copy(self) == [copy |-> self, shared |-> ContainerFields]

\* A clone that keeps the alarms container of the original.
clone_sharing_alarms(self) ==
    [copy_copy(self) EXCEPT !.shared = @ \ {"_unused"}]

\* Todo.clone: _unused is replaced by its clone, alarms by a copy.copy of
\* the collection.
clone(self) ==
    LET c0 == copy_copy(self)
        c1 == [c0 EXCEPT !.shared = @ \ {"_unused"}]
        c2 == [c1 EXCEPT !.shared = @ \ {"alarms"}]
    IN  c2

\* alarms.add(x) on a set, alarms.append(x) on a list.
add_alarm(al, x) ==
    IF al.kind = "set"
    THEN IF \E i \in 1 .. Len(al.items) : al.items[i] = x THEN al
         ELSE set_of(Append(al.items, x))
    ELSE [al EXCEPT !.items = Append(@, x)]

\* A sequence without its first element equal to x.
RECURSIVE remove_first(_, _)
remove_first(items, x) ==
    IF items = <<>> THEN <<>>
    ELSE IF Head(items) = x THEN Tail(items)
    ELSE <<Head(items)>> \o remove_first(Tail(items), x)

\* alarms.remove(x), x an element.
remove_alarm(al, x) == [al EXCEPT !.items = remove_first(@, x)]

-----------------------------------------------------------------------------
(* The inputs the model draws from. *)

\* The timestamp text of an instant, written in a zone one unit ahead of UTC.
TimeText(instant) == <<instant + 1, 1>>

TimeTexts == {TimeText(i) : i \in Times}

\* Duration texts: 0..MaxDur days, and one week.
DurTexts == {<<0, d>> : d \in Durs} \cup {<<1, 0>>}

\* The text "a\," : an escaped comma after a letter.
SomeText == <<97, 92, 44>>

\* The uid "u".
SomeUid == <<117>>

\* Lists of n alarms, n <= MaxAlarms, in descending order of identity.
AlarmLists == {[i \in 1 .. n |-> n + 1 - i] : n \in 0 .. MaxAlarms}

\* Lists of n lines with a tag no extractor claims, n <= MaxUnused.
UnknownLists ==
    {[i \in 1 .. n |-> Line("X-PROP", <<n + 1 - i>>)] : n \in 0 .. MaxUnused}

LineOpt(tag, v) == IF v = None THEN <<>> ELSE <<Line(tag, v[1])>>

\* The container of a choice ch of lines.  The lines come in an order of
\* their own, not the registration order: the first unclaimed line, the
\* alarms, the single-line tags from DURATION back to DTSTAMP, then the
\* other unclaimed lines.
MkContainer(ch) ==
    (IF ch.unknown = <<>> THEN <<>> ELSE <<Head(ch.unknown)>>)
    \o [i \in 1 .. Len(ch.alarms) |-> Line("VALARM", <<ch.alarms[i]>>)]
    \o LineOpt("DURATION", ch.duration)
    \o LineOpt("DUE", ch.due)
    \o LineOpt("URL", ch.url)
    \o LineOpt("SUMMARY", ch.summary)
    \o LineOpt("PRIORITY", ch.priority)
    \o LineOpt("PERCENT-COMPLETE", ch.percent)
    \o LineOpt("LOCATION", ch.location)
    \o LineOpt("DTSTART", ch.dtstart)
    \o LineOpt("DESCRIPTION", ch.description)
    \o LineOpt("COMPLETED", ch.completed)
    \o LineOpt("UID", ch.uid)
    \o LineOpt("DTSTAMP", ch.dtstamp)
    \o (IF ch.unknown = <<>> THEN <<>> ELSE Tail(ch.unknown))

\* Containers for the time model: every combination of DTSTART, DUE and
\* DURATION lines, with the other lines extraction needs.
TimeChoices ==
    [uid : {Some(SomeUid)}, dtstamp : {Some(TimeText(0))}, completed : {None},
     description : {None}, dtstart : Opt(TimeTexts), location : {None},
     percent : {Some(<<50>>)}, priority : {Some(<<5>>)}, summary : {None},
     url : {None}, due : Opt(TimeTexts), duration : Opt(DurTexts),
     alarms : {<<>>}, unknown : {<<>>}]

\* Containers for extraction and serialization: every recognized line
\* present or absent, zero and non-zero numbers, alarms and unclaimed lines.
IOChoices ==
    [uid : {None, Some(SomeUid)}, dtstamp : {None, Some(TimeText(0))},
     completed : {None, Some(TimeText(0))},
     description : {None, Some(SomeText)},
     dtstart : {None, Some(TimeText(MaxTime))},
     location : {None, Some(SomeText)},
     percent : {None, Some(<<0>>), Some(<<50>>)},
     priority : {None, Some(<<0>>), Some(<<5>>)},
     summary : {None, Some(SomeText)}, url : {None, Some(SomeText)},
     due : {None, Some(TimeText(MaxTime))},
     duration : {None, Some(<<0, 0>>), Some(<<1, 0>>)},
     alarms : AlarmLists, unknown : UnknownLists]

\* PERCENT-COMPLETE values: below, at and above the ends of 0..100.
PercentValues == {0 - 1, 0, 50, 100, 101}

\* PRIORITY values: below, at and above the ends of 0..9.
PriorityValues == {0 - 1, 0, 5, 9, 10}

\* Containers for the range checks: PERCENT-COMPLETE and PRIORITY absent or
\* present with each value, with or without UID, DTSTART and DUE.
RangeChoices ==
    [uid : {None, Some(SomeUid)}, dtstamp : {Some(TimeText(0))},
     completed : {None}, description : {None},
     dtstart : {None, Some(TimeText(0))}, location : {None},
     percent : Opt({<<v>> : v \in PercentValues}),
     priority : Opt({<<v>> : v \in PriorityValues}),
     summary : {None}, url : {None},
     due : {None, Some(TimeText(MaxTime))}, duration : {None},
     alarms : {<<>>}, unknown : {<<>>}]

\* The names "a" and "b".
SomeNames == {<<97>>, <<98>>}

\* Constructor arguments for two Todos to compare: every combination of
\* begin and due, with or without a duration and a name; the uid is
\* generated.
PairArgs ==
    {[DefaultArgs EXCEPT !.name = n, !.begin = b, !.due = d, !.duration = x] :
        n \in Opt(SomeNames), b \in Opt(Times), d \in Opt(Times),
        x \in {None, Some(MaxDur)}}

\* Constructor arguments of the Todos cloned: no argument; begin, due and
\* alarms; begin and duration.
CloneArgs ==
    {DefaultArgs,
     [DefaultArgs EXCEPT !.begin = Some(0), !.due = Some(MaxTime),
                         !.alarms = Some(<<2, 1>>)],
     [DefaultArgs EXCEPT !.begin = Some(0), !.duration = Some(MaxDur)]}

\* Containers of the Todos cloned: with or without DTSTART and DUE, with
\* all the alarms and unclaimed lines, or none.
CloneChoices ==
    [uid : {Some(SomeUid)}, dtstamp : {Some(TimeText(0))}, completed : {None},
     description : {None}, dtstart : {None, Some(TimeText(0))},
     location : {None}, percent : {Some(<<50>>)}, priority : {Some(<<5>>)},
     summary : {None}, url : {None}, due : {None, Some(TimeText(MaxTime))},
     duration : {None},
     alarms : {<<>>, [i \in 1 .. MaxAlarms |-> MaxAlarms + 1 - i]},
     unknown : {<<>>, [i \in 1 .. MaxUnused |-> Line("X-PROP", <<MaxUnused + 1 - i>>)]}]

\* The values the setters are given on a Todo or its clone.
CloneTimes == {None, Some(0), Some(MaxTime)}

CloneDurs == {None, Some(0), Some(MaxDur)}

\* The alarm and the unclaimed line added to a Todo or its clone.
NewAlarm == MaxAlarms + 1

NewLine == Line("X-NEW", <<0>>)

\* Containers for the order of lines: DUE and DURATION in every
\* combination, with or without UID, PERCENT-COMPLETE and DTSTART, with
\* alarms and unclaimed lines.
OrderChoices ==
    [uid : {None, Some(SomeUid)}, dtstamp : {Some(TimeText(0))},
     completed : {None}, description : {None},
     dtstart : {None, Some(TimeText(0))}, location : {None},
     percent : {None, Some(<<50>>)}, priority : {Some(<<5>>)},
     summary : {None}, url : {None},
     due : {None, Some(TimeText(MaxTime))}, duration : Opt(DurTexts),
     alarms : AlarmLists, unknown : UnknownLists]

\* A container with the lines at i and j exchanged.
Swap(container, i, j) ==
    [k \in 1 .. Len(container) |->
        IF k = i THEN container[j] ELSE IF k = j THEN container[i] ELSE container[k]]

\* Constructor arguments: every combination of begin, due and duration,
\* with or without a uid and alarms.
CtorArgs ==
    {[DefaultArgs EXCEPT !.uid = u, !.begin = b, !.due = d, !.duration = n,
                         !.alarms = al] :
        u \in {None, Some(SomeUid)}, b \in Opt(Times), d \in Opt(Times),
        n \in Opt(Durs), al \in {None, Some(<<2, 1>>)}}

-----------------------------------------------------------------------------
(* The state machine.  todo is the entity the caller holds (live), or      *)
(* NoTodo; op, arg, cargs and inp are the last call and its inputs, err    *)
(* its outcome, out the last serialization.                                *)

\* No comparison made yet.
NoResults ==
    [eq |-> NoBool, ne |-> NoBool, hash_a |-> NoInt, hash_b |-> NoInt,
     lt |-> NoBool, le |-> NoBool, gt |-> NoBool, ge |-> NoBool,
     lt_r |-> NoBool, le_r |-> NoBool, gt_r |-> NoBool, ge_r |-> NoBool,
     due_within |-> NoBool, intersects |-> NoBool, intersects_r |-> NoBool]

Init ==
    /\ todo = NoTodo
    /\ live = FALSE
    /\ op = "new"
    /\ arg = None
    /\ cargs = DefaultArgs
    /\ inp = <<>>
    /\ out = <<>>
    /\ err = "ok"
    /\ other = NoTodo
    /\ oerr = "ok"
    /\ shared = {}
    /\ res = NoResults
    /\ nmut = 0

\* Todo(**a)
Construct ==
    /\ ~live
    /\ \E a \in CtorArgs, g \in GenUids :
         LET r == Todo__init__(a, g)
         IN  /\ live' = (r.err = "ok")
             /\ todo' = IF r.err = "ok" THEN r.todo ELSE NoTodo
             /\ err' = r.err
             /\ cargs' = a
    /\ op' = "init"
    /\ arg' = None
    /\ inp' = <<>>
    /\ out' = <<>>
    /\ UNCHANGED aux

\* The outcome of a setter call on the entity held.
Called(name, value, r) ==
    /\ todo' = r.todo
    /\ err' = r.err
    /\ op' = name
    /\ arg' = value
    /\ cargs' = DefaultArgs
    /\ inp' = <<>>
    /\ out' = <<>>
    /\ UNCHANGED live
    /\ UNCHANGED aux

\* todo.begin = v
SetBegin ==
    /\ live
    /\ \E v \in Opt(Times) : Called("set_begin", v, set_begin(todo, v))

\* todo.due = v
SetDue ==
    /\ live
    /\ \E v \in Opt(Times) : Called("set_due", v, set_due(todo, v))

\* todo.duration = v
SetDuration ==
    /\ live
    /\ \E v \in Opt(Durs) : Called("set_duration", v, set_duration(todo, v))

\* Todo._from_container(c), recorded as the call name.
ExtractFrom(name, c, g) ==
    LET r == from_container(c, g)
    IN  /\ live' = (r.err = "ok")
        /\ todo' = IF r.err = "ok" THEN r.todo ELSE NoTodo
        /\ err' = r.err
        /\ op' = name
        /\ arg' = None
        /\ cargs' = DefaultArgs
        /\ inp' = c
        /\ out' = <<>>

ExtractTime ==
    /\ ~live
    /\ UNCHANGED aux
    /\ \E ch \in TimeChoices, g \in GenUids : ExtractFrom("extract", MkContainer(ch), g)

\* One container is followed through its extraction and serializations.
ExtractIO ==
    /\ op = "new"
    /\ UNCHANGED aux
    /\ \E ch \in IOChoices, g \in GenUids : ExtractFrom("extract", MkContainer(ch), g)

\* str(todo).  uid_gen() and arrow.now() are drawn only where the producers
\* call them.
Serialize ==
    /\ live
    /\ \E g \in IF truthy_str(todo.uid) THEN {todo.uid[1]} ELSE GenUids,
          now1 \in IF truthy_arrow(todo.completed) THEN {todo.completed[1]} ELSE Times,
          now2 \in IF truthy_arrow(todo.created) THEN {todo.created[1]} ELSE Times,
          order \in iter_orders(todo.alarms) :
         out' = Todo__str__(todo, g, now1, now2, order)
    /\ op' = "str"
    /\ err' = "ok"
    /\ arg' = None
    /\ cargs' = DefaultArgs
    /\ UNCHANGED <<todo, live, inp>>
    /\ UNCHANGED aux

\* Todo._from_container of the container just serialized.
ReExtract ==
    /\ live
    /\ op = "str"
    /\ UNCHANGED aux
    /\ \E g \in GenUids : ExtractFrom("reextract", out, g)

Next ==
    \/ Construct
    \/ SetBegin
    \/ SetDue
    \/ SetDuration
    \/ ExtractTime
    \/ Serialize

Spec == Init /\ [][Next]_vars

NextIO ==
    \/ ExtractIO
    \/ Serialize
    \/ ReExtract

SpecIO == Init /\ [][NextIO]_vars

\* Todo._from_container of a container of the range checks.
ExtractRange ==
    /\ op = "new"
    /\ UNCHANGED aux
    /\ \E ch \in RangeChoices, g \in GenUids : ExtractFrom("extract", MkContainer(ch), g)

NextRange ==
    \/ ExtractRange
    \/ Serialize
    \/ ReExtract

SpecRange == Init /\ [][NextRange]_vars

\* Todo(**a), the first of two Todos.
ConstructNamed ==
    /\ op = "new"
    /\ \E a \in PairArgs, g \in GenUids :
         LET r == Todo__init__(a, g)
         IN  /\ live' = (r.err = "ok")
             /\ todo' = IF r.err = "ok" THEN r.todo ELSE NoTodo
             /\ err' = r.err
             /\ cargs' = a
    /\ op' = "init"
    /\ arg' = None
    /\ inp' = <<>>
    /\ out' = <<>>
    /\ UNCHANGED aux

\* Todo(**a), the second of two Todos.
ConstructOther ==
    /\ live
    /\ op \in {"init", "extract"}
    /\ \E a \in PairArgs, g \in GenUids :
         LET r == Todo__init__(a, g)
         IN  /\ other' = IF r.err = "ok" THEN r.todo ELSE NoTodo
             /\ oerr' = r.err
    /\ op' = "init_other"
    /\ arg' = None
    /\ cargs' = DefaultArgs
    /\ inp' = <<>>
    /\ out' = <<>>
    /\ UNCHANGED <<todo, live, err, shared, res, nmut>>

\* Every comparison of the two Todos, in both directions; py3 tells which
\* Python runs the code.
Compare ==
    /\ live
    /\ op = "init_other"
    /\ other # NoTodo
    /\ \E py3 \in BOOLEAN :
         res' = [eq |-> Todo__eq__(todo, other),
                 ne |-> Todo__ne__(todo, other),
                 hash_a |-> Todo__hash__(todo),
                 hash_b |-> Todo__hash__(other),
                 lt |-> Todo__lt__(todo, other),
                 le |-> Todo__le__(todo, other),
                 gt |-> Todo__gt__(todo, other, py3),
                 ge |-> Todo__ge__(todo, other, py3),
                 lt_r |-> Todo__lt__(other, todo),
                 le_r |-> Todo__le__(other, todo),
                 gt_r |-> Todo__gt__(other, todo, py3),
                 ge_r |-> Todo__ge__(other, todo, py3),
                 due_within |-> due_within(todo, other),
                 intersects |-> intersects(todo, other),
                 intersects_r |-> intersects(other, todo)]
    /\ op' = "compare"
    /\ UNCHANGED <<todo, live, arg, cargs, inp, out, err, other, oerr, shared, nmut>>

NextPair ==
    \/ ConstructNamed
    \/ ExtractTime
    \/ ConstructOther
    \/ Compare

SpecPair == Init /\ [][NextPair]_vars

\* Todo(**a), a Todo to clone.
ConstructToClone ==
    /\ op = "new"
    /\ \E a \in CloneArgs, g \in GenUids :
         LET r == Todo__init__(a, g)
         IN  /\ live' = (r.err = "ok")
             /\ todo' = IF r.err = "ok" THEN r.todo ELSE NoTodo
             /\ err' = r.err
             /\ cargs' = a
    /\ op' = "init"
    /\ arg' = None
    /\ inp' = <<>>
    /\ out' = <<>>
    /\ UNCHANGED aux

\* Todo._from_container, a Todo to clone.
ExtractToClone ==
    /\ op = "new"
    /\ UNCHANGED aux
    /\ \E ch \in CloneChoices, g \in GenUids : ExtractFrom("extract", MkContainer(ch), g)

\* c = t.clone(): other is the clone.
Clone ==
    /\ live
    /\ op \in {"init", "extract"}
    /\ other' = clone(todo).copy
    /\ shared' = clone(todo).shared
    /\ oerr' = "ok"
    /\ nmut' = 0
    /\ op' = "clone"
    /\ arg' = None
    /\ cargs' = DefaultArgs
    /\ inp' = <<>>
    /\ out' = <<>>
    /\ UNCHANGED <<todo, live, err, res>>

\* The names of the changes made to the original and to the clone.
SelfOps ==
    {"set_begin", "set_due", "set_duration", "add_alarm", "remove_alarm",
     "append_unused", "remove_unused"}

CloneOps ==
    {"clone.set_begin", "clone.set_duration", "clone.set_due", "clone.add_alarm",
     "clone.remove_alarm", "clone.append_unused", "clone.remove_unused"}

\* The original or the clone.
Target(which) == IF which = "self" THEN todo ELSE other

\* A change of the entity which to t, recorded as the call name; every
\* container changed in place (fields) shows in the other entity when the
\* two share it.
Mutated(which, name, value, e, t, fields) ==
    LET seen(u) == [f \in DOMAIN u |->
                      IF f \in fields /\ f \in shared THEN t[f] ELSE u[f]]
    IN  /\ op \in {"clone"} \cup SelfOps \cup CloneOps
        /\ nmut < MaxMutations
        /\ nmut' = nmut + 1
        /\ todo' = IF which = "self" THEN t ELSE seen(todo)
        /\ other' = IF which = "self" THEN seen(other) ELSE t
        /\ op' = IF which = "self" THEN name ELSE "clone." \o name
        /\ arg' = value
        /\ err' = e
        /\ UNCHANGED <<live, cargs, inp, out, oerr, shared, res>>

\* t.begin = v or c.begin = v
SetBeginOf ==
    /\ other # NoTodo
    /\ \E which \in {"self", "clone"}, v \in CloneTimes :
         LET r == set_begin(Target(which), v)
         IN  Mutated(which, "set_begin", v, r.err, r.todo, {})

\* t.due = v or c.due = v
SetDueOf ==
    /\ other # NoTodo
    /\ \E which \in {"self", "clone"}, v \in CloneTimes :
         LET r == set_due(Target(which), v)
         IN  Mutated(which, "set_due", v, r.err, r.todo, {})

\* t.duration = v or c.duration = v
SetDurationOf ==
    /\ other # NoTodo
    /\ \E which \in {"self", "clone"}, v \in CloneDurs :
         LET r == set_duration(Target(which), v)
         IN  Mutated(which, "set_duration", v, r.err, r.todo, {})

\* t.alarms.add(x) / .append(x), or the same on c
AddAlarm ==
    /\ other # NoTodo
    /\ \E which \in {"self", "clone"} :
         Mutated(which, "add_alarm", Some(NewAlarm), "ok",
                 [Target(which) EXCEPT !.alarms = add_alarm(@, NewAlarm)],
                 {"alarms"})

\* t.alarms.remove(x), or the same on c, x one of the alarms
RemoveAlarm ==
    /\ other # NoTodo
    /\ \E which \in {"self", "clone"} :
         \E i \in 1 .. Len(Target(which).alarms.items) :
             LET x == Target(which).alarms.items[i]
             IN  Mutated(which, "remove_alarm", Some(x), "ok",
                         [Target(which) EXCEPT !.alarms = remove_alarm(@, x)],
                         {"alarms"})

\* t._unused.append(line), or the same on c
AppendUnused ==
    /\ other # NoTodo
    /\ \E which \in {"self", "clone"} :
         Mutated(which, "append_unused", None, "ok",
                 [Target(which) EXCEPT !._unused = Append(@, NewLine)],
                 {"_unused"})

\* t._unused.remove(line), or the same on c, line the first unused line
RemoveUnused ==
    /\ other # NoTodo
    /\ \E which \in {"self", "clone"} :
        /\ Target(which)._unused # <<>>
        /\ Mutated(which, "remove_unused", None, "ok",
                   [Target(which) EXCEPT !._unused = Tail(@)],
                   {"_unused"})

NextClone ==
    \/ ConstructToClone
    \/ ExtractToClone
    \/ Clone
    \/ SetBeginOf
    \/ SetDueOf
    \/ SetDurationOf
    \/ AddAlarm
    \/ RemoveAlarm
    \/ AppendUnused
    \/ RemoveUnused

SpecClone == Init /\ [][NextClone]_vars

\* Todo._from_container of a container of the order checks.
ExtractOrder ==
    /\ op = "new"
    /\ UNCHANGED aux
    /\ \E ch \in OrderChoices, g \in GenUids : ExtractFrom("extract", MkContainer(ch), g)

\* Todo._from_container of the container just extracted with two of its
\* lines exchanged; the first outcome is kept in other and oerr.
ExtractPermuted ==
    /\ op = "extract"
    /\ other' = todo
    /\ oerr' = err
    /\ UNCHANGED <<shared, res, nmut>>
    /\ \E i \in 1 .. Len(inp), j \in 1 .. Len(inp), g \in GenUids :
          /\ i < j
          /\ ExtractFrom("permuted", Swap(inp, i, j), g)

NextOrder ==
    \/ ExtractOrder
    \/ ExtractPermuted

SpecOrder == Init /\ [][NextOrder]_vars

-----------------------------------------------------------------------------
(* Properties of the time model, checked under Spec. *)

\* C1: at most one of the stored fields due_time and duration is set,
\* after any sequence of construction, setters and extraction.
C1_AtMostOneOfDueTimeAndDuration ==
    live => ~(todo._due_time # None /\ todo._duration # None)

\* C2: in every reachable state, if both begin and due_time are set then
\* begin <= due_time.
C2_BeginNotAfterDueTime ==
    (live /\ todo._begin # None /\ todo._due_time # None)
        => todo._begin[1] <= todo._due_time[1]

\* C3: no sequence of operations leaves a Todo with a stored duration and
\* an absent begin.
C3_DurationRequiresBegin ==
    (live /\ todo._duration # None) => todo._begin # None

\* C4: with begin b and a stored duration d (zero included), get due
\* returns b + d and get duration returns d; with no stored duration, get
\* due returns due_time (absent if due_time is absent).
C4_DueIsBeginPlusDuration ==
    live =>
        /\ (todo._duration # None /\ todo._begin # None)
              => /\ due(todo) = Ret(Some(todo._begin[1] + todo._duration[1]))
                 /\ duration(todo) = Ret(todo._duration)
        /\ todo._duration = None => due(todo) = Ret(todo._due_time)

\* C5: set due(value) fails with InvalidState exactly when value is
\* non-absent and less than the current begin, succeeds in every other
\* case (an absent begin included), and a failed call leaves begin,
\* due_time and duration unchanged.
C5_SetDueFailsExactlyWhenBeforeBegin ==
    [][op' = "set_due" =>
          /\ (err' = "InvalidState")
                <=> (arg' # None /\ todo._begin # None /\ arg'[1] < todo._begin[1])
          /\ err' \in {"ok", "InvalidState"}
          /\ err' # "ok" =>
                /\ todo'._begin = todo._begin
                /\ todo'._due_time = todo._due_time
                /\ todo'._duration = todo._duration]_vars

\* C6: set begin(value) fails with InvalidState exactly when value is
\* non-absent and greater than the stored due_time; a failed call leaves
\* begin unchanged, and every call leaves due_time and the stored duration
\* unchanged.
C6_SetBeginFailsExactlyWhenAfterDueTime ==
    [][op' = "set_begin" =>
          /\ (err' = "InvalidState")
                <=> (arg' # None /\ todo._due_time # None
                     /\ arg'[1] > todo._due_time[1])
          /\ err' \in {"ok", "InvalidState"}
          /\ err' # "ok" => todo'._begin = todo._begin
          /\ todo'._due_time = todo._due_time
          /\ todo'._duration = todo._duration]_vars

\* C6 witness: a set begin was refused on an entity with a due_time, and
\* left it as it was.
C6_Witness ==
    /\ live
    /\ op = "set_begin"
    /\ err = "InvalidState"
    /\ todo._due_time # None
    /\ arg # None
    /\ arg[1] > todo._due_time[1]
    /\ todo._begin # arg

\* C7: construction fails with InvalidConstruction whenever both due and
\* duration are given, and whenever duration is given without begin; every
\* other combination with begin <= due succeeds and reads back the given
\* begin and due (or begin and duration).
C7_ConstructorValidation ==
    op = "init" =>
        IF \/ (cargs.due # None /\ cargs.duration # None)
           \/ (cargs.duration # None /\ cargs.begin = None)
        THEN err = "InvalidConstruction"
        ELSE (cargs.begin # None /\ cargs.due # None => cargs.begin[1] <= cargs.due[1])
                => /\ err = "ok"
                   /\ begin(todo) = cargs.begin
                   /\ cargs.due # None => due(todo) = Ret(cargs.due)
                   /\ cargs.duration # None => duration(todo) = Ret(cargs.duration)

-----------------------------------------------------------------------------
(* Properties of extraction and serialization, checked under SpecIO. *)

\* The tags of the single-line properties a Todo recognizes.
PropertyTags ==
    {"UID", "DTSTAMP", "COMPLETED", "DESCRIPTION", "DTSTART", "LOCATION",
     "PERCENT-COMPLETE", "PRIORITY", "SUMMARY", "URL", "DUE", "DURATION"}

\* Whether a container holds a line with the tag.
HasTag(container, tag) == \E i \in 1 .. Len(container) : container[i].tag = tag

\* What a property line means: the instant of a timestamp, the span of a
\* duration, the unescaped text, or the value as written.
SemanticValue(l) ==
    CASE l.tag \in {"DTSTAMP", "COMPLETED", "DTSTART", "DUE"} -> <<iso_to_arrow(l)>>
      [] l.tag = "DURATION" -> <<parse_duration(l.value)>>
      [] l.tag \in {"DESCRIPTION", "LOCATION", "SUMMARY", "URL"} -> unescape_string(l.value)
      [] OTHER -> l.value

\* The lines of a container whose tag is none of the recognized ones.
UnrecognizedLines(container) ==
    SelectSeq(container, LAMBDA l : l.tag \notin PropertyTags \cup {"VALARM"})

\* C8: serializing an extracted Todo yields, for every recognized property
\* line of the input, a line with the same tag and an equal value.
C8_RoundTripOfRecognizedProperties ==
    (op = "str" /\ inp # <<>>) =>
        \A i \in 1 .. Len(inp) :
            inp[i].tag \in PropertyTags =>
                \E j \in 1 .. Len(out) :
                    /\ out[j].tag = inp[i].tag
                    /\ SemanticValue(out[j]) = SemanticValue(inp[i])

\* C9: the lines no extractor claims are kept in unused in their original
\* order; serialization emits them verbatim, in that order, after every
\* line the producers write; and a further extraction of the serialized
\* container keeps the same unused lines.
C9_UnusedLinesPreserved ==
    /\ [](/\ (op \in {"extract", "reextract"} /\ live)
                => todo._unused = UnrecognizedLines(inp)
          /\ op = "str" =>
                LET k == Len(out) - Len(todo._unused)
                IN  /\ k >= 0
                    /\ SubSeq(out, k + 1, Len(out)) = todo._unused
                    /\ \A i \in 1 .. k : out[i].tag \in PropertyTags \cup {"VALARM"})
    /\ [][(op' = "reextract" /\ live') => todo'._unused = todo._unused]_vars

\* C9 witness: a serialized container was extracted again, and the entity
\* holds two or more unused lines among other lines.
C9_Witness ==
    /\ op = "reextract"
    /\ live
    /\ Len(todo._unused) >= 2
    /\ todo._unused[1] # todo._unused[2]
    /\ Len(inp) > Len(todo._unused)

\* C10: extraction fails with MissingProperty iff the container lacks a UID
\* or a DTSTAMP line; the absence of a non-required tag never makes it
\* fail, and leaves the corresponding field absent.  (The containers drawn
\* hold only values in range; one holding both DUE and DURATION is left to
\* its own rule.)
C10_OnlyRequiredTagsAreRequired ==
    op = "extract" =>
        /\ (err = "MissingProperty")
              <=> (~HasTag(inp, "UID") \/ ~HasTag(inp, "DTSTAMP"))
        /\ (/\ HasTag(inp, "UID")
            /\ HasTag(inp, "DTSTAMP")
            /\ ~(HasTag(inp, "DUE") /\ HasTag(inp, "DURATION")))
              => /\ err = "ok"
                 /\ ~HasTag(inp, "COMPLETED") => todo.completed = None
                 /\ ~HasTag(inp, "DESCRIPTION") => todo.description = None
                 /\ ~HasTag(inp, "DTSTART") => todo._begin = None
                 /\ ~HasTag(inp, "LOCATION") => todo.location = None
                 /\ ~HasTag(inp, "PERCENT-COMPLETE") => todo.percent = None
                 /\ ~HasTag(inp, "PRIORITY") => todo.priority = None
                 /\ ~HasTag(inp, "SUMMARY") => todo.name = None
                 /\ ~HasTag(inp, "URL") => todo.url = None
                 /\ ~HasTag(inp, "DUE") => todo._due_time = None
                 /\ ~HasTag(inp, "DURATION") => todo._duration = None
                 /\ ~HasTag(inp, "VALARM") => todo.alarms.items = <<>>

-----------------------------------------------------------------------------
(* Properties of the serialized time lines, checked under Spec. *)

\* C19: the serialized output of every reachable Todo holds at most one of
\* a DUE and a DURATION line; a DUE line is written only from the stored
\* due_time, and a DURATION line only when both the stored duration and
\* begin are present.
C19_AtMostOneOfDueAndDurationWritten ==
    (live /\ op = "str")
        => /\ ~(HasTag(out, "DUE") /\ HasTag(out, "DURATION"))
           /\ Len(get_lines(out, "DUE")) <= 1
           /\ Len(get_lines(out, "DURATION")) <= 1
           /\ HasTag(out, "DUE")
                => /\ todo._due_time # None
                   /\ get_lines(out, "DUE")[1].value = arrow_to_iso(todo._due_time[1])
           /\ HasTag(out, "DURATION")
                => /\ todo._duration # None
                   /\ todo._begin # None

\* A Todo with begin and a stored non-zero duration has been serialized,
\* and its output holds the DURATION line.
C19_Witness ==
    /\ live
    /\ op = "str"
    /\ todo._begin # None
    /\ todo._duration # None
    /\ HasTag(out, "DURATION")
    /\ ~HasTag(out, "DUE")

-----------------------------------------------------------------------------
(* Properties of extraction, checked under SpecRange. *)

\* Whether a single-line tag is present with a value outside lo..hi.
OutOfRange(container, tag, lo, hi) ==
    \E i \in 1 .. Len(container) :
        /\ container[i].tag = tag
        /\ (container[i].value[1] < lo \/ container[i].value[1] > hi)

\* The optional number a single-line tag carries in a container.
NumberOf(container, tag) ==
    IF HasTag(container, tag)
    THEN Some(get_lines(container, tag)[1].value[1])
    ELSE None

\* C11: extraction of a container with its required lines fails with
\* MalformedProperty, producing no entity, when PERCENT-COMPLETE is outside
\* 0..100 or PRIORITY outside 0..9; with every value inside the range, the
\* ends included, it succeeds and stores the values unchanged.
C11_RangeCheckedOnExtraction ==
    (op = "extract" /\ HasTag(inp, "UID") /\ HasTag(inp, "DTSTAMP"))
        => IF \/ OutOfRange(inp, "PERCENT-COMPLETE", 0, 100)
              \/ OutOfRange(inp, "PRIORITY", 0, 9)
           THEN err = "MalformedProperty" /\ ~live
           ELSE /\ err = "ok"
                /\ live
                /\ todo.percent = NumberOf(inp, "PERCENT-COMPLETE")
                /\ todo.priority = NumberOf(inp, "PRIORITY")

-----------------------------------------------------------------------------
(* Properties of the order of lines, checked under SpecOrder. *)

\* C12: extraction of a container (with its required lines) that holds
\* both DUE and DURATION fails with MalformedProperty whatever the order of
\* the two lines and whatever the duration, zero included; a container
\* holding only one of them succeeds and sets only the corresponding
\* stored field.
C12_DueAndDurationExclusiveOnExtraction ==
    (op \in {"extract", "permuted"} /\ HasTag(inp, "UID") /\ HasTag(inp, "DTSTAMP"))
        => /\ (HasTag(inp, "DUE") /\ HasTag(inp, "DURATION"))
                => (err = "MalformedProperty" /\ ~live)
           /\ (HasTag(inp, "DUE") /\ ~HasTag(inp, "DURATION"))
                => /\ err = "ok"
                   /\ live
                   /\ todo._due_time = Some(iso_to_arrow(get_lines(inp, "DUE")[1]))
                   /\ todo._duration = None
           /\ (HasTag(inp, "DURATION") /\ ~HasTag(inp, "DUE"))
                => /\ err = "ok"
                   /\ live
                   /\ todo._duration =
                        Some(parse_duration(get_lines(inp, "DURATION")[1].value))
                   /\ todo._due_time = None

\* The fields of an entity that extraction fills from recognized lines.
RecognizedFields(t) == [t EXCEPT !._unused = <<>>]

\* C18: two containers that are permutations of each other extract to the
\* same outcome: the same failure kind, or the same values of the fields
\* filled from recognized lines.
C18_ExtractionIgnoresLineOrder ==
    (op = "permuted")
        => /\ err = oerr
           /\ RecognizedFields(todo) = RecognizedFields(other)

-----------------------------------------------------------------------------
(* Properties of two Todos, checked under SpecPair. *)

\* C13: a == b holds exactly when the uids are equal, a != b is its
\* negation, whatever the other fields are, and a == b implies
\* hash(a) == hash(b).
C13_EqualityAndHashByUid ==
    (op = "compare")
        => /\ res.eq = RetBool(todo.uid = other.uid)
           /\ res.ne = RetBool(~res.eq.val)
           /\ res.eq.val => res.hash_a = res.hash_b

\* Two Todos with the same uid and different other fields have been
\* compared.
C13_Witness ==
    /\ op = "compare"
    /\ todo.uid = other.uid
    /\ todo.name # other.name
    /\ todo._begin # other._begin
    /\ res.hash_a.err = "ok"

\* Whether an entity has a due, has none, or fails to tell.
HasDue(t) == due(t).err = "ok" /\ due(t).val # None

HasNoDue(t) == due(t).err = "ok" /\ due(t).val = None

\* a sorts before b by name, an absent name before a present one.
NameBefore(a, b) ==
    \/ a.name = None /\ b.name # None
    \/ a.name # None /\ b.name # None /\ str_lt(a.name[1], b.name[1])

\* C14: for two Todos that both have a due or both have none, the four
\* operators order by due, or by name with an absent name first; with no
\* due and no name <= and >= hold and < and > do not; a < b iff b > a,
\* a <= b iff b >= a, and no operator fails.
C14_OrderingByDueThenName ==
    (op = "compare"
     /\ ((HasDue(todo) /\ HasDue(other)) \/ (HasNoDue(todo) /\ HasNoDue(other))))
        => LET before == IF HasDue(todo) THEN due(todo).val[1] < due(other).val[1]
                         ELSE NameBefore(todo, other)
               after == IF HasDue(todo) THEN due(todo).val[1] > due(other).val[1]
                        ELSE NameBefore(other, todo)
           IN  /\ res.lt = RetBool(before)
               /\ res.le = RetBool(~after)
               /\ res.gt = RetBool(after)
               /\ res.ge = RetBool(~before)
               /\ res.gt_r = res.lt
               /\ res.ge_r = res.le
               /\ res.lt_r = res.gt
               /\ res.le_r = res.ge

\* Whether an entity has begin and due set, begin not after due.
Interval(t) == begin(t) # None /\ HasDue(t) /\ begin(t)[1] <= due(t).val[1]

\* C15: for A and B that each have begin and due with begin <= due,
\* A.intersects(B) is true exactly when A.begin <= B.due and
\* B.begin <= A.due, and B.intersects(A) is the same.
C15_IntersectsIsIntervalOverlap ==
    (op = "compare" /\ Interval(todo) /\ Interval(other))
        => /\ res.intersects =
                RetBool(begin(todo)[1] <= due(other).val[1]
                        /\ begin(other)[1] <= due(todo).val[1])
           /\ res.intersects_r = res.intersects

\* B lies strictly inside A: only the look from B finds the overlap.
C15_Witness ==
    /\ op = "compare"
    /\ Interval(todo)
    /\ Interval(other)
    /\ begin(todo)[1] < begin(other)[1]
    /\ due(other).val[1] < due(todo).val[1]
    /\ res.intersects = RetBool(TRUE)

\* C16: due_within(other) is true exactly when this Todo has a due, other
\* has begin and due, and other.begin <= this.due <= other.due; in every
\* other case it is false and does not fail, whether or not this Todo has
\* a begin.
C16_DueWithinNeedsOnlyDue ==
    (op = "compare")
        => res.due_within =
             RetBool(/\ HasDue(todo)
                     /\ begin(other) # None
                     /\ HasDue(other)
                     /\ begin(other)[1] <= due(todo).val[1]
                     /\ due(todo).val[1] <= due(other).val[1])

-----------------------------------------------------------------------------
(* Properties of cloning, checked under SpecClone. *)

\* C17: the clone of a Todo, constructed or extracted, has the same uid,
\* begin, due_time, duration, alarms and unused lines; every later change
\* of the clone (setting begin, due or duration, adding or removing an
\* alarm, appending or removing an unused line) leaves the original as it
\* was, and every change of the original leaves the clone as it was.
C17_CloneIsIndependent ==
    /\ [](op = "clone" => other = todo)
    /\ [][/\ op' \in CloneOps => todo' = todo
          /\ op' \in SelfOps => other' = other]_vars

\* An alarm has been added to the clone of an extracted Todo, whose own
\* alarms differ from the clone's since.
C17_Witness ==
    /\ op = "clone.add_alarm"
    /\ todo.alarms.kind = "list"
    /\ todo.alarms # other.alarms
    /\ todo._unused = other._unused

====
